---- MODULE Spec2Model ----
(***************************************************************************)
(* Model of the lead-generation front end: the result-list state of        *)
(* app.js (search, filter, pagination, statistics, CSV export) and the     *)
(* fetch wrappers of api.js.                                               *)
(*                                                                         *)
(* Conventions.  JavaScript strings whose characters matter (the text      *)
(* fields of a business) are sequences of one-character strings; null is   *)
(* NullText.  Numbers are integers; ratings and rating thresholds are in   *)
(* tenths (4.5 is 45); a null number is NullNum.  DOM select values and    *)
(* messages, which are only compared, are TLA+ strings.                    *)
(***************************************************************************)
EXTENDS Integers, Sequences, FiniteSets, TLC

\* ------------------------------------------------------------------ bounds
ChunkSize == 5         \* the lengths of the lists a search returns are
MaxChunks == 5         \*   0, ChunkSize, 2*ChunkSize, ..., MaxChunks*ChunkSize
MaxOffset == 0         \* the kind of a list's first business is in 0 .. MaxOffset
MaxPageIndex == 3     \* largest page index the pagination walk starts from
MaxInFlight == 2       \* cap on api.searchBusinesses calls in flight at once
MaxPending == 2        \* cap on the calls each modal has in flight at once
MaxRow == 3            \* the user clicks buttons of the first MaxRow table rows

\* --------------------------------------------------------------- constants
PAGE_SIZE == 10

\* ---------------------------------------------------------- JS value model
NullNum == -1
NullText == <<"<null>">>
Undefined == "<undefined>"
Quote == "\""

\* JS truthiness of a string-or-null and of a number-or-null
TruthyText(t) == t # NullText /\ t # <<>>
TruthyNum(n) == n # NullNum /\ n # 0

\* (t || '') and (n || dflt)
TextOrEmpty(t) == IF TruthyText(t) THEN t ELSE <<>>
NumOr(n, dflt) == IF TruthyNum(n) THEN n ELSE dflt

\* Array.prototype.slice(start, end) on a 1-based sequence, 0-based indices
Slice(s, start, end) ==
    LET lo == IF start > Len(s) THEN Len(s) ELSE start
        hi == IF end > Len(s) THEN Len(s) ELSE end
    IN  IF hi <= lo THEN <<>> ELSE SubSeq(s, lo + 1, hi)

\* Math.ceil(n / d) for n >= 0, d > 0
Ceil(n, d) == IF n % d = 0 THEN n \div d ELSE (n \div d) + 1

\* ------------------------------------------------------------- businesses
DigitChar(d) == <<"0", "1", "2", "3", "4", "5", "6", "7", "8", "9">>[d + 1]

RECURSIVE Digits(_)
Digits(n) == IF n < 10 THEN <<DigitChar(n)>>
             ELSE Digits(n \div 10) \o <<DigitChar(n % 10)>>

Websites == <<NullText, <<>>, <<"w">> >>
Ratings == <<NullNum, 0, 30, 45>>
NKinds == Len(Websites) * Len(Ratings)

\* The i-th business of a server response; its optional fields follow its
\* kind k in 0 .. NKinds-1, its name and id follow i.
Business(i, k) ==
    [ id           |-> 100 + i,
      name         |-> IF i % 4 = 2 THEN <<"B", "\"">> \o Digits(i)
                                    ELSE <<"B">> \o Digits(i),
      website      |-> Websites[(k % 3) + 1],
      rating       |-> Ratings[(k \div 3) + 1],
      lead_score   |-> <<NullNum, 0, 40, 70>>[(i % 4) + 1],
      review_count |-> <<NullNum, 0, 12>>[(i % 3) + 1],
      phone        |-> IF i % 2 = 0 THEN NullText ELSE <<"5", "5">>,
      address      |-> IF i % 5 = 0 THEN <<>> ELSE <<"A", "\"">> ]

\* n businesses whose kinds cycle through all kinds, starting at `offset`
BusinessList(n, offset) ==
    [i \in 1 .. n |-> Business(i, ((i - 1) + offset) % NKinds)]

\* result.businesses of the successful search responses
SearchResults ==
    { BusinessList(c * ChunkSize, offset) :
        c \in 0 .. MaxChunks, offset \in 0 .. MaxOffset }

\* ------------------------------------------------- filtering (app.js 107-124)
WebsiteValues == {"", "true", "false"}      \* websiteFilter.value
RatingValues == {"", "0", "3", "4.5"}       \* ratingFilter.value

\* parseFloat of a rating option, in tenths
ParseFloat(str) ==
    CASE str = "0" -> 0
      [] str = "3" -> 30
      [] str = "4.5" -> 45
      [] OTHER -> NullNum

\* minRating = ratingFilter.value ? parseFloat(ratingFilter.value) : null
MinRatingOf(ratingValue) ==
    IF ratingValue # "" THEN ParseFloat(ratingValue) ELSE NullNum

\* b => b.website   and   b => !b.website
HasWebsite(b) == TruthyText(b.website)
LacksWebsite(b) == ~TruthyText(b.website)

\* if (minRating) filtered = filtered.filter(b => b.rating && b.rating >= minRating)
RatingFilterStage(filtered, minRating) ==
    IF TruthyNum(minRating)
    THEN LET keep(b) == TruthyNum(b.rating) /\ b.rating >= minRating
         IN  SelectSeq(filtered, keep)
    ELSE filtered

GetFilteredBusinesses(businesses, websiteValue, ratingValue) ==
    LET minRating == MinRatingOf(ratingValue)
        byWebsite == IF websiteValue = "true" THEN SelectSeq(businesses, HasWebsite)
                     ELSE IF websiteValue = "false" THEN SelectSeq(businesses, LacksWebsite)
                     ELSE businesses
    IN  RatingFilterStage(byWebsite, minRating)

\* ------------------------------------------------- rendering (app.js 167-273)
\* escapeHtml(text) (app.js 363-368): innerHTML of a text node escapes
\* &, < and > and leaves quotes alone
RECURSIVE EscapeHtml(_)
EscapeHtml(t) ==
    IF ~TruthyText(t) THEN <<>>
    ELSE LET c == Head(t)
             e == CASE c = "&" -> <<"&", "a", "m", "p", ";">>
                    [] c = "<" -> <<"&", "l", "t", ";">>
                    [] c = ">" -> <<"&", "g", "t", ";">>
                    [] OTHER -> <<c>>
         IN  e \o EscapeHtml(Tail(t))

\* text.replace(/'/g, "\\'")
RECURSIVE EscapeApostrophes(_)
EscapeApostrophes(t) ==
    IF t = <<>> THEN <<>>
    ELSE (IF Head(t) = "'" THEN <<"\\", "'">> ELSE <<Head(t)>>)
         \o EscapeApostrophes(Tail(t))

\* The name as it is spliced into onclick="openResearch(id, '...')".  The
\* attribute is delimited by double quotes, so its script is the call only
\* if the spliced name holds none; otherwise the script is cut short and a
\* click runs nothing.
OnclickName(name) == EscapeApostrophes(EscapeHtml(name))

\* the names of the businesses the responses carry
BusinessNames == { Business(i, 0).name : i \in 1 .. MaxChunks * ChunkSize }

\* OnclickName of every such name, computed once
OnclickNames == [name \in BusinessNames |-> OnclickName(name)]

OnclickIsCall(b) ==
    LET name == OnclickNames[b.name]
    IN  \A i \in 1 .. Len(name) : name[i] # Quote

TableRow_AlwaysActions(b) ==
    [ id          |-> b.id,
      websiteLink |-> TruthyText(b.website),
      researchBtn |-> TRUE,
      seoBtn      |-> TRUE,
      onclickIsCall |-> OnclickIsCall(b) ]

\* One <tr> of renderTable: the business it shows and which optional
\* controls its cells carry.
TableRow(b) ==
    [ id          |-> b.id,
      websiteLink |-> TruthyText(b.website),
      researchBtn |-> TruthyText(b.website),
      seoBtn      |-> TruthyText(b.website),
      onclickIsCall |-> OnclickIsCall(b) ]

RenderTable(pageData) == [i \in 1 .. Len(pageData) |-> TableRow(pageData[i])]

NoPagination ==
    [ present |-> FALSE, page |-> 0, totalPages |-> 0, totalItems |-> 0,
      prevDisabled |-> TRUE, nextDisabled |-> TRUE ]

\* The #paginationControls element and the totalPages its click handlers
\* close over.
RenderPaginationControls(page, totalItems, totalPages) ==
    IF totalPages <= 1 THEN NoPagination
    ELSE [ present |-> TRUE, page |-> page, totalPages |-> totalPages,
           totalItems |-> totalItems,
           prevDisabled |-> (page = 0),
           nextDisabled |-> (page >= totalPages - 1) ]

PageData_OffByOne(businesses, page) ==
    Slice(businesses, page * PAGE_SIZE + 1, page * PAGE_SIZE + 1 + PAGE_SIZE)

\* const start = currentPage * PAGE_SIZE; businesses.slice(start, start + PAGE_SIZE)
PageData(businesses, page) ==
    Slice(businesses, page * PAGE_SIZE, page * PAGE_SIZE + PAGE_SIZE)

TotalPages(businesses) == Ceil(Len(businesses), PAGE_SIZE)

\* renderPage(businesses) with currentPage = page: the table body and the
\* pagination controls it leaves in the document.
RenderPage(businesses, page) ==
    [ body       |-> RenderTable(PageData(businesses, page)),
      pagination |-> RenderPaginationControls(page, Len(businesses),
                                              TotalPages(businesses)) ]

\* ------------------------------------------------ statistics (app.js 287-295)
UpdateStats_NullCheck(businesses) ==
    LET total == Len(businesses)
        withWebsite == Len(SelectSeq(businesses, LAMBDA b : b.website # NullText))
    IN  [ total |-> total, withWebsite |-> withWebsite,
          withoutWebsite |-> total - withWebsite ]

UpdateStats(businesses) ==
    LET total == Len(businesses)
        withWebsite == Len(SelectSeq(businesses, HasWebsite))
    IN  [ total |-> total, withWebsite |-> withWebsite,
          withoutWebsite |-> total - withWebsite ]

NoStats == [ total |-> 0, withWebsite |-> 0, withoutWebsite |-> 0 ]

\* ------------------------------------------------ CSV export (app.js 300-328)
\* text.replace(/"/g, '""')
RECURSIVE EscapeQuotes(_)
EscapeQuotes(t) ==
    IF t = <<>> THEN <<>>
    ELSE (IF Head(t) = Quote THEN <<Quote, Quote>> ELSE <<Head(t)>>)
         \o EscapeQuotes(Tail(t))

\* `"${(text || '').replace(/"/g, '""')}"`
QuotedField(t) == <<Quote>> \o EscapeQuotes(TextOrEmpty(t)) \o <<Quote>>

\* String(n) of a plain integer and of a rating held in tenths
NumText(n) == Digits(n)
RatingText(r) == IF r % 10 = 0 THEN Digits(r \div 10)
                 ELSE Digits(r \div 10) \o <<".">> \o Digits(r % 10)

\* array.join(sep)
RECURSIVE Join(_, _)
Join(parts, sep) ==
    IF parts = <<>> THEN <<>>
    ELSE IF Len(parts) = 1 THEN parts[1]
    ELSE parts[1] \o <<sep>> \o Join(Tail(parts), sep)

CsvHeaders == << <<"Name">>, <<"Lead Score">>, <<"Rating">>, <<"Reviews">>,
                 <<"Website">>, <<"Phone">>, <<"Address">> >>

CsvRow(b) ==
    << QuotedField(b.name),
       NumText(NumOr(b.lead_score, 0)),
       IF TruthyNum(b.rating) THEN RatingText(b.rating) ELSE <<>>,
       IF TruthyNum(b.review_count) THEN NumText(b.review_count) ELSE <<>>,
       QuotedField(b.website),
       QuotedField(b.phone),
       QuotedField(b.address) >>

\* [headers.join(','), ...rows.map(r => r.join(','))].join('\n')
CsvText(businesses) ==
    Join(<<Join(CsvHeaders, ",")>>
           \o [i \in 1 .. Len(businesses) |-> Join(CsvRow(businesses[i]), ",")],
         "\n")

NoDownload == <<"<none>">>

\* ------------------------------------------------------ api.js: responses
\* A response body as response.json() sees it: text that is not JSON
\* ("notjson", which makes json() reject), the JSON value null, or a JSON
\* object with an optional string member `detail` and the rest of its
\* members in `payload`.
Body(tag, detail, payload) == [ tag |-> tag, detail |-> detail, payload |-> payload ]

NotJsonBody == Body("notjson", Undefined, "")
JsonNull == Body("null", Undefined, "")

Details == {Undefined, "", "Quota exceeded"}
Payloads == {"", "data"}

Bodies == {NotJsonBody, JsonNull}
            \cup { Body("object", d, p) : d \in Details, p \in Payloads }

Statuses == {200, 201, 400, 404, 500, 502}

HttpResponses == [ status : Statuses, body : Bodies ]

\* response.ok
Ok(response) == response.status >= 200 /\ response.status <= 299

\* What an api method does: return a value or throw an Error with a message
Return(value) == [ kind |-> "return", value |-> value, message |-> "" ]
Throw(message) == [ kind |-> "throw", value |-> JsonNull, message |-> message ]

SyntaxErrorMessage == "Unexpected token in JSON"
TypeErrorMessage == "Cannot read properties of null"

\* return response.json()
ResponseJson(response) ==
    IF response.body.tag = "notjson" THEN Throw(SyntaxErrorMessage)
    ELSE Return(response.body)

\* const error = await response.json(); throw new Error(error.detail || dflt)
ThrowDetailOr(response, dflt) ==
    LET error == ResponseJson(response)
    IN  IF error.kind = "throw" THEN error
        ELSE IF error.value.tag = "null" THEN Throw(TypeErrorMessage)
        ELSE IF error.value.detail # Undefined /\ error.value.detail # ""
             THEN Throw(error.value.detail)
        ELSE Throw(dflt)

\* api.js 11-31
searchBusinesses(response) ==
    IF ~Ok(response) THEN ThrowDetailOr(response, "Search failed")
    ELSE ResponseJson(response)

\* api.js 36-42
getUsage(response) ==
    IF ~Ok(response) THEN Throw("Failed to get usage stats")
    ELSE ResponseJson(response)

\* api.js 47-63
getBusinesses(response) ==
    IF ~Ok(response) THEN Throw("Failed to get businesses")
    ELSE ResponseJson(response)

\* api.js 68-74
getStats(response) ==
    IF ~Ok(response) THEN Throw("Failed to get stats")
    ELSE ResponseJson(response)

\* api.js 79-82
healthCheck(response) == ResponseJson(response)

\* api.js 89-98
runCompanyResearch(response) ==
    IF ~Ok(response) THEN ThrowDetailOr(response, "Research failed")
    ELSE ResponseJson(response)

\* api.js 103-110
getCompanyResearch(response) ==
    IF ~Ok(response)
    THEN IF response.status = 404 THEN Return(JsonNull)
         ELSE Throw("Failed to get research")
    ELSE ResponseJson(response)

\* api.js 115-121
getFirecrawlUsage(response) ==
    IF ~Ok(response) THEN Throw("Failed to get Firecrawl usage")
    ELSE ResponseJson(response)

\* api.js 128-137
runSeoAnalysis(response) ==
    IF ~Ok(response) THEN ThrowDetailOr(response, "SEO analysis failed")
    ELSE ResponseJson(response)

\* api.js 142-149
getSeoAnalysis(response) ==
    IF ~Ok(response)
    THEN IF response.status = 404 THEN Return(JsonNull)
         ELSE Throw("Failed to get SEO analysis")
    ELSE ResponseJson(response)

\* api.js 154-161
getSeoIssues(response) ==
    IF ~Ok(response)
    THEN IF response.status = 404 THEN Return(JsonNull)
         ELSE Throw("Failed to get SEO issues")
    ELSE ResponseJson(response)

\* The messages handleSearch catches from api.searchBusinesses when the
\* server answers 500 with a structured error and when a proxy answers 502
\* with a page that is not JSON.
SearchErrorResponses ==
    { [status |-> 500, body |-> Body("object", "Quota exceeded", "")],
      [status |-> 502, body |-> NotJsonBody] }

SearchFailureMessages == { searchBusinesses(r).message : r \in SearchErrorResponses }

\* ------------------------------------------------------------------ state
VARIABLES
    currentSearchId,    \* app.js 6; NullNum is null
    currentBusinesses,  \* app.js 7
    currentPage,        \* app.js 8
    websiteFilter,      \* websiteFilter.value
    ratingFilter,       \* ratingFilter.value
    searchBtnDisabled,  \* searchBtn.disabled
    display,            \* which of the five panels are shown
    errorMessage,       \* #errorMessage text
    resultsBody,        \* rows of #resultsBody
    pagination,         \* #paginationControls and its handlers' closure
    stats,              \* #statTotal, #statWithWebsite, #statWithoutWebsite
    usageDisplay,       \* #usageCount text and #usageFill style
    download,           \* text of the file the last step made the browser save
    initPc,             \* position of init()
    searchPc,           \* position of the running handleSearch()
    requestLog,         \* api requests issued by the running init/handleSearch
    lastEvent,          \* the handler that ran last
    apiCall,            \* an api.js method applied to a response
    searchRequestsInFlight, \* api.searchBusinesses calls not yet settled
    researchModal,      \* #researchModal, #researchContent and the pending
                        \*   api.runCompanyResearch calls of openResearch
    seoModal            \* #seoModal, #seoContent and the pending
                        \*   api.runSeoAnalysis calls of openSeoAnalysis

vars == << currentSearchId, currentBusinesses, currentPage, websiteFilter,
           ratingFilter, searchBtnDisabled, display, errorMessage, resultsBody,
           pagination, stats, usageDisplay, download, initPc, searchPc,
           requestLog, lastEvent, apiCall, searchRequestsInFlight,
           researchModal, seoModal >>

modalVars == << researchModal, seoModal >>

listVars == << currentSearchId, currentBusinesses >>
filterVars == << websiteFilter, ratingFilter >>
usageVars == << usageDisplay >>
searchVars == << searchBtnDisabled, searchPc, requestLog, searchRequestsInFlight >>

\* Panels of the static page before the first search: only the placeholder
\* is shown.
InitialDisplay ==
    [ emptyState |-> TRUE, errorState |-> FALSE, resultsSection |-> FALSE,
      statsBar |-> FALSE, filtersSection |-> FALSE ]

NoUsage == [ used |-> 0, limit |-> 0, width |-> 0, warn |-> FALSE ]
NoApiCall == [ op |-> "none", response |-> [status |-> 200, body |-> JsonNull],
               outcome |-> Return(JsonNull) ]

\* What a modal's content element shows: nothing yet, the spinner put there
\* by the call for business `id`, or the result / the error of the call
\* that was made for business `id`.
ModalContent(kind, id, message) == [ kind |-> kind, id |-> id, message |-> message ]

NoBusiness == 0

\* A modal of the static page before its first use: hidden and empty, no
\* call pending, `latest` (the business of the most recent call) unset.
ClosedModal ==
    [ open |-> FALSE, content |-> ModalContent("empty", NoBusiness, ""),
      pending |-> {}, latest |-> NoBusiness ]

\* getUsage payloads: calls_used, calls_limit, percentage_used
UsagePayloads == { [calls_used |-> 90, calls_limit |-> 100, percentage_used |-> 90] }

SearchIds == {1}
FormTexts == {"", " ", "dentist"}
Trim(t) == IF t = " " THEN "" ELSE t

Init ==
    /\ currentSearchId = NullNum
    /\ currentBusinesses = <<>>
    /\ currentPage = 0
    /\ websiteFilter = ""
    /\ ratingFilter = ""
    /\ searchBtnDisabled = FALSE
    /\ display = InitialDisplay
    /\ errorMessage = ""
    /\ resultsBody = <<>>
    /\ pagination = NoPagination
    /\ stats = NoStats
    /\ usageDisplay = NoUsage
    /\ download = NoDownload
    /\ initPc = "loading"
    /\ searchPc = "idle"
    /\ requestLog = <<>>
    /\ lastEvent = "none"
    /\ apiCall = NoApiCall
    /\ searchRequestsInFlight = 0
    /\ researchModal = ClosedModal
    /\ seoModal = ClosedModal

\* ------------------------------------------------- init and updateUsage
\* DOMContentLoaded: init() calls updateUsage(), which awaits api.getUsage()
InitStart ==
    /\ initPc = "loading"
    /\ initPc' = "awaitUsage"
    /\ requestLog' = <<"getUsage">>
    /\ lastEvent' = "load"
    /\ download' = NoDownload
    /\ UNCHANGED << listVars, currentPage, filterVars, searchBtnDisabled, display,
                    errorMessage, resultsBody, pagination, stats, usageVars,
                    searchPc, searchRequestsInFlight, apiCall, modalVars >>

\* updateUsage() after api.getUsage() settled: the display on success,
\* console.error only on failure
UsageShown(old, ok, usage) ==
    IF ok THEN [ used |-> usage.calls_used, limit |-> usage.calls_limit,
                 width |-> usage.percentage_used,
                 warn |-> (usage.percentage_used > 80) ]
    ELSE old

\* init() resumes after its updateUsage(): the listeners are attached
InitUsageSettled ==
    /\ initPc = "awaitUsage"
    /\ \E ok \in BOOLEAN, usage \in UsagePayloads :
          usageDisplay' = UsageShown(usageDisplay, ok, usage)
    /\ initPc' = "ready"
    /\ lastEvent' = "ready"
    /\ download' = NoDownload
    /\ UNCHANGED << listVars, currentPage, filterVars, searchVars, display,
                    errorMessage, resultsBody, pagination, stats, apiCall, modalVars >>

\* ------------------------------------------------------------ handleSearch
SetLoading_NeverDisables(loading) == FALSE

\* setLoading(loading): the value it gives searchBtn.disabled (app.js 333-337)
SetLoading(loading) == loading

\* showResults(businesses) with currentPage = page
ShowResults(businesses, page, oldBody, oldPagination) ==
    IF Len(businesses) = 0
    THEN [ display |-> [ emptyState |-> TRUE, resultsSection |-> FALSE,
                         statsBar |-> FALSE, filtersSection |-> FALSE ],
           body |-> oldBody, pagination |-> oldPagination ]
    ELSE [ display |-> [ emptyState |-> FALSE, resultsSection |-> TRUE,
                         statsBar |-> TRUE, filtersSection |-> TRUE ],
           body |-> RenderPage(businesses, page).body,
           pagination |-> RenderPage(businesses, page).pagination ]

\* submit of the search form, up to the await of api.searchBusinesses
HandleSearchSubmit ==
    /\ initPc = "ready"
    /\ ~searchBtnDisabled
    /\ \E query \in FormTexts, location \in FormTexts :
         IF Trim(query) = "" \/ Trim(location) = ""
         THEN /\ lastEvent' = "submitIgnored"
              /\ UNCHANGED << searchVars, display >>
         ELSE /\ searchRequestsInFlight < MaxInFlight
              /\ searchBtnDisabled' = SetLoading(TRUE)
              /\ display' = [display EXCEPT !.errorState = FALSE]
              /\ searchPc' = "awaitSearch"
              /\ searchRequestsInFlight' = searchRequestsInFlight + 1
              /\ requestLog' = <<"searchBusinesses">>
              /\ lastEvent' = "submit"
    /\ download' = NoDownload
    /\ UNCHANGED << listVars, currentPage, filterVars, errorMessage, resultsBody,
                    pagination, stats, usageVars, initPc, apiCall, modalVars >>

\* api.searchBusinesses resolved: lines 87-94, up to the await in updateUsage
SearchResolved ==
    /\ searchPc = "awaitSearch"
    /\ \E id \in SearchIds, businesses \in SearchResults :
         LET shown == ShowResults(businesses, 0, resultsBody, pagination)
         IN  /\ currentSearchId' = id
             /\ currentBusinesses' = businesses
             /\ currentPage' = 0
             /\ display' = [ emptyState |-> shown.display.emptyState,
                             errorState |-> display.errorState,
                             resultsSection |-> shown.display.resultsSection,
                             statsBar |-> shown.display.statsBar,
                             filtersSection |-> shown.display.filtersSection ]
             /\ resultsBody' = shown.body
             /\ pagination' = shown.pagination
             /\ stats' = UpdateStats(businesses)
    /\ searchPc' = "awaitUsage"
    /\ searchRequestsInFlight' = searchRequestsInFlight - 1
    /\ requestLog' = Append(requestLog, "getUsage")
    /\ lastEvent' = "searchResolved"
    /\ download' = NoDownload
    /\ UNCHANGED << filterVars, searchBtnDisabled, errorMessage, usageVars,
                    initPc, apiCall, modalVars >>

\* api.searchBusinesses threw: catch (showError) and finally (setLoading(false))
SearchRejected ==
    /\ searchPc = "awaitSearch"
    /\ \E message \in SearchFailureMessages : errorMessage' = message
    /\ display' = [ emptyState |-> FALSE, errorState |-> TRUE,
                    resultsSection |-> FALSE, statsBar |-> FALSE,
                    filtersSection |-> FALSE ]
    /\ searchBtnDisabled' = SetLoading(FALSE)
    /\ searchPc' = "idle"
    /\ searchRequestsInFlight' = searchRequestsInFlight - 1
    /\ lastEvent' = "searchRejected"
    /\ download' = NoDownload
    /\ UNCHANGED << listVars, currentPage, filterVars, resultsBody, pagination,
                    stats, usageVars, initPc, requestLog, apiCall, modalVars >>

\* handleSearch resumes after its updateUsage(): finally (setLoading(false))
SearchUsageSettled ==
    /\ searchPc = "awaitUsage"
    /\ \E ok \in BOOLEAN, usage \in UsagePayloads :
          usageDisplay' = UsageShown(usageDisplay, ok, usage)
    /\ searchBtnDisabled' = SetLoading(FALSE)
    /\ searchPc' = "idle"
    /\ lastEvent' = "searchDone"
    /\ download' = NoDownload
    /\ UNCHANGED << listVars, currentPage, filterVars, display, errorMessage,
                    resultsBody, pagination, stats, initPc, requestLog,
                    searchRequestsInFlight, apiCall, modalVars >>

\* ------------------------------------------------- filters and pagination
\* applyFilters() with the given globals: what renderPage leaves in the page
ApplyFilters(businesses, websiteValue, ratingValue, page) ==
    RenderPage(GetFilteredBusinesses(businesses, websiteValue, ratingValue), page)

\* The user picks another option in one of the two selects; the selects are
\* inside #filtersSection and the change listeners exist once init() is done.
FilterChoice(w, r) ==
    /\ w \in WebsiteValues /\ r \in RatingValues
    /\ \/ (w # websiteFilter /\ r = ratingFilter)
       \/ (w = websiteFilter /\ r # ratingFilter)

HandleFilterChange_KeepPage ==
    /\ initPc = "ready"
    /\ display.filtersSection
    /\ \E w \in WebsiteValues, r \in RatingValues :
         /\ FilterChoice(w, r)
         /\ websiteFilter' = w
         /\ ratingFilter' = r
         /\ currentPage' = currentPage
         /\ resultsBody' = ApplyFilters(currentBusinesses, w, r, currentPage).body
         /\ pagination' = ApplyFilters(currentBusinesses, w, r, currentPage).pagination
    /\ lastEvent' = "filterChange"
    /\ download' = NoDownload
    /\ UNCHANGED << listVars, searchVars, display, errorMessage, stats, usageVars,
                    initPc, apiCall, modalVars >>

\* handleFilterChange (app.js 129-132)
HandleFilterChange ==
    /\ initPc = "ready"
    /\ display.filtersSection
    /\ \E w \in WebsiteValues, r \in RatingValues :
         /\ FilterChoice(w, r)
         /\ websiteFilter' = w
         /\ ratingFilter' = r
         /\ currentPage' = 0
         /\ resultsBody' = ApplyFilters(currentBusinesses, w, r, 0).body
         /\ pagination' = ApplyFilters(currentBusinesses, w, r, 0).pagination
    /\ lastEvent' = "filterChange"
    /\ download' = NoDownload
    /\ UNCHANGED << listVars, searchVars, display, errorMessage, stats, usageVars,
                    initPc, apiCall, modalVars >>

\* A click reaches #prevBtn / #nextBtn only while #paginationControls is in
\* the document and its section is shown.  The handlers test currentPage
\* themselves, so the model does not rely on the disabled attribute.
PaginationClickable == display.resultsSection /\ pagination.present

\* click on #prevBtn (app.js 208-213)
PrevClick ==
    /\ PaginationClickable
    /\ IF currentPage > 0
       THEN /\ currentPage' = currentPage - 1
            /\ resultsBody' = ApplyFilters(currentBusinesses, websiteFilter,
                                           ratingFilter, currentPage - 1).body
            /\ pagination' = ApplyFilters(currentBusinesses, websiteFilter,
                                          ratingFilter, currentPage - 1).pagination
       ELSE UNCHANGED << currentPage, resultsBody, pagination >>
    /\ lastEvent' = "prevClick"
    /\ download' = NoDownload
    /\ UNCHANGED << listVars, filterVars, searchVars, display, errorMessage, stats,
                    usageVars, initPc, apiCall, modalVars >>

\* click on #nextBtn (app.js 215-220); totalPages is the one the controls
\* were rendered with
NextClick ==
    /\ PaginationClickable
    /\ IF currentPage < pagination.totalPages - 1
       THEN /\ currentPage' = currentPage + 1
            /\ resultsBody' = ApplyFilters(currentBusinesses, websiteFilter,
                                           ratingFilter, currentPage + 1).body
            /\ pagination' = ApplyFilters(currentBusinesses, websiteFilter,
                                          ratingFilter, currentPage + 1).pagination
       ELSE UNCHANGED << currentPage, resultsBody, pagination >>
    /\ lastEvent' = "nextClick"
    /\ download' = NoDownload
    /\ UNCHANGED << listVars, filterVars, searchVars, display, errorMessage, stats,
                    usageVars, initPc, apiCall, modalVars >>

\* ---------------------------------------------------------------- export
ExportCSV_CurrentPage ==
    /\ initPc = "ready"
    /\ IF Len(currentBusinesses) = 0
       THEN download' = NoDownload
       ELSE download' = CsvText(PageData(GetFilteredBusinesses(currentBusinesses,
                                    websiteFilter, ratingFilter), currentPage))
    /\ lastEvent' = "export"
    /\ UNCHANGED << listVars, currentPage, filterVars, searchVars, display,
                    errorMessage, resultsBody, pagination, stats, usageVars,
                    initPc, apiCall, modalVars >>

\* click on #exportBtn: exportCSV (app.js 300-328)
ExportCSV ==
    /\ initPc = "ready"
    /\ IF Len(currentBusinesses) = 0
       THEN download' = NoDownload
       ELSE download' = CsvText(GetFilteredBusinesses(currentBusinesses,
                                    websiteFilter, ratingFilter))
    /\ lastEvent' = "export"
    /\ UNCHANGED << listVars, currentPage, filterVars, searchVars, display,
                    errorMessage, resultsBody, pagination, stats, usageVars,
                    initPc, apiCall, modalVars >>

\* ------------------------------------------------------------ the program
Next ==
    \/ InitStart
    \/ InitUsageSettled
    \/ HandleSearchSubmit
    \/ SearchResolved
    \/ SearchRejected
    \/ SearchUsageSettled
    \/ HandleFilterChange
    \/ PrevClick
    \/ NextClick
    \/ ExportCSV

Spec == Init /\ [][Next]_vars

\* ------------------------------------------- api.js applied to responses
ApiResult(op, response, outcome) ==
    [ op |-> op, response |-> response, outcome |-> outcome ]

uiVars == << listVars, currentPage, filterVars, searchVars, display, errorMessage,
             resultsBody, pagination, stats, usageVars, download, initPc,
             lastEvent, modalVars >>

CallSearchBusinesses ==
    \E r \in HttpResponses :
        /\ apiCall' = ApiResult("searchBusinesses", r, searchBusinesses(r))
        /\ UNCHANGED uiVars

CallGetUsage ==
    \E r \in HttpResponses :
        /\ apiCall' = ApiResult("getUsage", r, getUsage(r))
        /\ UNCHANGED uiVars

CallGetBusinesses ==
    \E r \in HttpResponses :
        /\ apiCall' = ApiResult("getBusinesses", r, getBusinesses(r))
        /\ UNCHANGED uiVars

CallGetStats ==
    \E r \in HttpResponses :
        /\ apiCall' = ApiResult("getStats", r, getStats(r))
        /\ UNCHANGED uiVars

CallHealthCheck ==
    \E r \in HttpResponses :
        /\ apiCall' = ApiResult("healthCheck", r, healthCheck(r))
        /\ UNCHANGED uiVars

CallRunCompanyResearch ==
    \E r \in HttpResponses :
        /\ apiCall' = ApiResult("runCompanyResearch", r, runCompanyResearch(r))
        /\ UNCHANGED uiVars

CallGetCompanyResearch ==
    \E r \in HttpResponses :
        /\ apiCall' = ApiResult("getCompanyResearch", r, getCompanyResearch(r))
        /\ UNCHANGED uiVars

CallGetFirecrawlUsage ==
    \E r \in HttpResponses :
        /\ apiCall' = ApiResult("getFirecrawlUsage", r, getFirecrawlUsage(r))
        /\ UNCHANGED uiVars

CallRunSeoAnalysis ==
    \E r \in HttpResponses :
        /\ apiCall' = ApiResult("runSeoAnalysis", r, runSeoAnalysis(r))
        /\ UNCHANGED uiVars

CallGetSeoAnalysis ==
    \E r \in HttpResponses :
        /\ apiCall' = ApiResult("getSeoAnalysis", r, getSeoAnalysis(r))
        /\ UNCHANGED uiVars

CallGetSeoIssues ==
    \E r \in HttpResponses :
        /\ apiCall' = ApiResult("getSeoIssues", r, getSeoIssues(r))
        /\ UNCHANGED uiVars

NextApi ==
    \/ CallSearchBusinesses
    \/ CallGetUsage
    \/ CallGetBusinesses
    \/ CallGetStats
    \/ CallHealthCheck
    \/ CallRunCompanyResearch
    \/ CallGetCompanyResearch
    \/ CallGetFirecrawlUsage
    \/ CallRunSeoAnalysis
    \/ CallGetSeoAnalysis
    \/ CallGetSeoIssues

SpecApi == Init /\ [][NextApi]_vars

\* ------------------------------- renderPage applied to lists and page indexes
\* applyFilters() (app.js 137-140) with the globals as they are
ApplyFiltersStep ==
    /\ resultsBody' = ApplyFilters(currentBusinesses, websiteFilter,
                                   ratingFilter, currentPage).body
    /\ pagination' = ApplyFilters(currentBusinesses, websiteFilter,
                                  ratingFilter, currentPage).pagination
    /\ lastEvent' = "applyFilters"
    /\ download' = NoDownload
    /\ UNCHANGED << listVars, currentPage, filterVars, searchVars, display,
                    errorMessage, stats, usageVars, initPc, apiCall, modalVars >>

InitPage ==
    /\ currentSearchId \in SearchIds
    /\ currentBusinesses \in SearchResults
    /\ currentPage \in 0 .. MaxPageIndex
    /\ websiteFilter \in WebsiteValues
    /\ ratingFilter \in RatingValues
    /\ searchBtnDisabled = FALSE
    /\ display = [ emptyState |-> FALSE, errorState |-> FALSE,
                   resultsSection |-> TRUE, statsBar |-> TRUE,
                   filtersSection |-> TRUE ]
    /\ errorMessage = ""
    /\ resultsBody = <<>>
    /\ pagination = NoPagination
    /\ stats = UpdateStats(currentBusinesses)
    /\ usageDisplay = NoUsage
    /\ download = NoDownload
    /\ initPc = "ready"
    /\ searchPc = "idle"
    /\ requestLog = <<>>
    /\ lastEvent = "none"
    /\ apiCall = NoApiCall
    /\ searchRequestsInFlight = 0
    /\ researchModal = ClosedModal
    /\ seoModal = ClosedModal

NextPage ==
    \/ ApplyFiltersStep
    \/ PrevClick
    \/ NextClick

SpecPage == InitPage /\ [][NextPage]_vars

\* ------------------------------------------------- modals (app.js 375-592)
\* Rows whose buttons the user can click: the table is shown and no modal
\* overlay covers it.
ClickableRows ==
    IF display.resultsSection /\ ~researchModal.open /\ ~seoModal.open
    THEN { i \in 1 .. Len(resultsBody) : i <= MaxRow }
    ELSE {}

\* Error responses to the two POSTs of the modals, and the messages the
\* modals catch from them
ModalErrorResponses == { [status |-> 500, body |-> Body("object", Undefined, "")] }
ResearchFailureMessages == { runCompanyResearch(r).message : r \in ModalErrorResponses }
SeoFailureMessages == { runSeoAnalysis(r).message : r \in ModalErrorResponses }

\* openResearch / openSeoAnalysis up to the await: the modal is shown with
\* the spinner and the call for businessId is in flight
ModalOpened(modal, businessId) ==
    [ open |-> TRUE, content |-> ModalContent("loading", businessId, ""),
      pending |-> modal.pending \cup {businessId}, latest |-> businessId ]

\* the rest of openResearch / openSeoAnalysis once the call for businessId
\* has settled: content.innerHTML is assigned the result or the error
ModalSettled(modal, businessId, kind, message) ==
    [ open |-> modal.open, content |-> ModalContent(kind, businessId, message),
      pending |-> modal.pending \ {businessId}, latest |-> modal.latest ]

\* closeModal(modalId), and a click on the modal's overlay
ModalClosed(modal) == [ modal EXCEPT !.open = FALSE ]

modalFrame == << listVars, currentPage, filterVars, searchVars, display,
                 errorMessage, resultsBody, pagination, stats, usageVars,
                 initPc, apiCall >>

\* click on a row's Research button (app.js 263, 382-397)
OpenResearch ==
    /\ \E i \in ClickableRows :
         /\ resultsBody[i].researchBtn
         /\ resultsBody[i].onclickIsCall
         /\ resultsBody[i].id \notin researchModal.pending
         /\ Cardinality(researchModal.pending) < MaxPending
         /\ researchModal' = ModalOpened(researchModal, resultsBody[i].id)
    /\ lastEvent' = "openResearch"
    /\ download' = NoDownload
    /\ UNCHANGED << modalFrame, seoModal >>

\* api.runCompanyResearch resolved (app.js 399-461)
ResearchResolved ==
    /\ \E id \in researchModal.pending :
         researchModal' = ModalSettled(researchModal, id, "result", "")
    /\ lastEvent' = "researchResolved"
    /\ download' = NoDownload
    /\ UNCHANGED << modalFrame, seoModal >>

\* api.runCompanyResearch threw (app.js 462-470)
ResearchRejected ==
    /\ \E id \in researchModal.pending, message \in ResearchFailureMessages :
         researchModal' = ModalSettled(researchModal, id, "error", message)
    /\ lastEvent' = "researchRejected"
    /\ download' = NoDownload
    /\ UNCHANGED << modalFrame, seoModal >>

CloseResearchModal ==
    /\ researchModal.open
    /\ researchModal' = ModalClosed(researchModal)
    /\ lastEvent' = "closeResearch"
    /\ download' = NoDownload
    /\ UNCHANGED << modalFrame, seoModal >>

\* click on a row's SEO button (app.js 266, 475-490)
OpenSeoAnalysis ==
    /\ \E i \in ClickableRows :
         /\ resultsBody[i].seoBtn
         /\ resultsBody[i].onclickIsCall
         /\ resultsBody[i].id \notin seoModal.pending
         /\ Cardinality(seoModal.pending) < MaxPending
         /\ seoModal' = ModalOpened(seoModal, resultsBody[i].id)
    /\ lastEvent' = "openSeoAnalysis"
    /\ download' = NoDownload
    /\ UNCHANGED << modalFrame, researchModal >>

\* api.runSeoAnalysis resolved (app.js 492-549)
SeoResolved ==
    /\ \E id \in seoModal.pending :
         seoModal' = ModalSettled(seoModal, id, "result", "")
    /\ lastEvent' = "seoResolved"
    /\ download' = NoDownload
    /\ UNCHANGED << modalFrame, researchModal >>

\* api.runSeoAnalysis threw (app.js 550-558)
SeoRejected ==
    /\ \E id \in seoModal.pending, message \in SeoFailureMessages :
         seoModal' = ModalSettled(seoModal, id, "error", message)
    /\ lastEvent' = "seoRejected"
    /\ download' = NoDownload
    /\ UNCHANGED << modalFrame, researchModal >>

CloseSeoModal ==
    /\ seoModal.open
    /\ seoModal' = ModalClosed(seoModal)
    /\ lastEvent' = "closeSeo"
    /\ download' = NoDownload
    /\ UNCHANGED << modalFrame, researchModal >>

\* The modal handlers read the rendered rows and write only their own modal;
\* they are explored from the states in which a search has settled and the
\* first page of its list is shown under a website filter.
InitModal ==
    /\ currentSearchId \in SearchIds
    /\ currentBusinesses \in { l \in SearchResults : Len(l) > 0 }
    /\ currentPage = 0
    /\ websiteFilter \in WebsiteValues
    /\ ratingFilter = ""
    /\ searchBtnDisabled = FALSE
    /\ display = [ emptyState |-> FALSE, errorState |-> FALSE,
                   resultsSection |-> TRUE, statsBar |-> TRUE,
                   filtersSection |-> TRUE ]
    /\ errorMessage = ""
    /\ resultsBody = ApplyFilters(currentBusinesses, websiteFilter, ratingFilter, 0).body
    /\ pagination = ApplyFilters(currentBusinesses, websiteFilter, ratingFilter, 0).pagination
    /\ stats = UpdateStats(currentBusinesses)
    /\ usageDisplay = NoUsage
    /\ download = NoDownload
    /\ initPc = "ready"
    /\ searchPc = "idle"
    /\ requestLog = <<"searchBusinesses", "getUsage">>
    /\ lastEvent = "filterChange"
    /\ apiCall = NoApiCall
    /\ searchRequestsInFlight = 0
    /\ researchModal = ClosedModal
    /\ seoModal = ClosedModal

NextModal ==
    \/ OpenResearch
    \/ ResearchResolved
    \/ ResearchRejected
    \/ CloseResearchModal
    \/ OpenSeoAnalysis
    \/ SeoResolved
    \/ SeoRejected
    \/ CloseSeoModal

SpecModal == InitModal /\ [][NextModal]_vars

\* ================================================================ properties
\* The filtered view of the current state
Filtered == GetFilteredBusinesses(currentBusinesses, websiteFilter, ratingFilter)

\* ids, in order, of the businesses a rendered table body shows
BodyIds(body) == [i \in 1 .. Len(body) |-> body[i].id]
Ids(businesses) == [i \in 1 .. Len(businesses) |-> businesses[i].id]

\* least k with k * PAGE_SIZE >= n
IsCeilOfPages(k, n) ==
    /\ k >= 0
    /\ k * PAGE_SIZE >= n
    /\ (k = 0 \/ (k - 1) * PAGE_SIZE < n)

\* C1: right after handleSearch has installed a new result list, the website
\* filter is 'any' and the rating threshold is unset, and the rendered rows
\* are page 0 of the filtered view.
C1_SearchResetsFilter ==
    lastEvent = "searchResolved" =>
        /\ websiteFilter = ""
        /\ ratingFilter = ""
        /\ (display.resultsSection =>
               BodyIds(resultsBody) = Ids(PageData(Filtered, 0)))

\* C2: Previous at page 0 and Next at the last page of the current filtered
\* view leave currentPage unchanged, so that currentPage is 0 or less than
\* the number of pages of the current filtered view.
C2_PageWithinFilteredView ==
    /\ [](currentPage = 0 \/ currentPage < Ceil(Len(Filtered), PAGE_SIZE))
    /\ [][ /\ (lastEvent' = "prevClick" /\ currentPage = 0)
                 => currentPage' = currentPage
           /\ (lastEvent' = "nextClick"
                 /\ currentPage + 1 >= Ceil(Len(Filtered), PAGE_SIZE))
                 => currentPage' = currentPage ]_vars

\* C3: in the state right after handleFilterChange, and right after
\* handleSearch stored a new result list, currentPage is 0.
C3_PageResetToZero ==
    lastEvent \in {"filterChange", "searchResolved"} => currentPage = 0

C3_Witness ==
    /\ lastEvent = "filterChange"
    /\ currentPage = 0
    /\ Len(currentBusinesses) > 2 * PAGE_SIZE
    /\ Len(Filtered) > PAGE_SIZE

\* C4: the filtered view is the order-preserving subsequence of the current
\* result list of the businesses that pass the website predicate and the
\* rating predicate, where a business without a rating fails every threshold
\* that is set, a threshold of 0 included.
C4_WebsitePredicate(b) ==
    CASE websiteFilter = "true" -> (b.website # NullText /\ b.website # <<>>)
      [] websiteFilter = "false" -> (b.website = NullText \/ b.website = <<>>)
      [] OTHER -> TRUE

C4_RatingPredicate(b) ==
    ratingFilter # "" => (b.rating # NullNum /\ b.rating >= ParseFloat(ratingFilter))

C4_Passes(b) == C4_WebsitePredicate(b) /\ C4_RatingPredicate(b)

C4_PositionOf(b) == CHOOSE j \in 1 .. Len(currentBusinesses) :
                        currentBusinesses[j].id = b.id

C4_FilteredIsSubsequence ==
    /\ \A i \in 1 .. Len(Filtered) :
          /\ \E j \in 1 .. Len(currentBusinesses) : currentBusinesses[j] = Filtered[i]
          /\ C4_Passes(Filtered[i])
    /\ \A j \in 1 .. Len(currentBusinesses) :
          C4_Passes(currentBusinesses[j])
            => \E i \in 1 .. Len(Filtered) : Filtered[i] = currentBusinesses[j]
    /\ \A i1, i2 \in 1 .. Len(Filtered) :
          i1 < i2 => C4_PositionOf(Filtered[i1]) < C4_PositionOf(Filtered[i2])

\* C5: for a filtered sequence of N businesses, totalPages is ceil(N / 10),
\* page p is the slice [10p, 10p + 10), the pages 0 .. totalPages-1 put
\* together are the filtered sequence, and a page with 10p >= N is empty;
\* the rendered table shows the slice of the current page.
RECURSIVE C5_ConcatPages(_, _, _)
C5_ConcatPages(businesses, p, total) ==
    IF p >= total THEN <<>>
    ELSE PageData(businesses, p) \o C5_ConcatPages(businesses, p + 1, total)

C5_ExpectedLen(n, p) ==
    IF n - PAGE_SIZE * p <= 0 THEN 0
    ELSE IF n - PAGE_SIZE * p >= PAGE_SIZE THEN PAGE_SIZE
    ELSE n - PAGE_SIZE * p

C5_PaginationPartitions ==
    LET n == Len(Filtered) IN
    /\ IsCeilOfPages(TotalPages(Filtered), n)
    /\ \A p \in 0 .. (MaxPageIndex + 1) :
          /\ Len(PageData(Filtered, p)) = C5_ExpectedLen(n, p)
          /\ \A i \in 1 .. Len(PageData(Filtered, p)) :
                PageData(Filtered, p)[i] = Filtered[PAGE_SIZE * p + i]
          /\ (PAGE_SIZE * p >= n => PageData(Filtered, p) = <<>>)
    /\ C5_ConcatPages(Filtered, 0, TotalPages(Filtered)) = Filtered
    /\ (lastEvent \in {"applyFilters", "prevClick", "nextClick"} /\ resultsBody # <<>>
          => \A i \in 1 .. Len(resultsBody) :
                resultsBody[i].id = Filtered[PAGE_SIZE * currentPage + i].id)
    /\ (pagination.present /\ lastEvent # "none"
          => IsCeilOfPages(pagination.totalPages, n))

C5_Witness ==
    /\ lastEvent = "applyFilters"
    /\ TotalPages(Filtered) = 3
    /\ currentPage = 2
    /\ Len(resultsBody) \in 1 .. (PAGE_SIZE - 1)
    /\ pagination.present

\* C6: init issues one getUsage request on load, and every search attempt
\* that settles, resolved or rejected, has issued a getUsage request after
\* its search request by the time the search button is enabled again.
C6_UsageAfterEverySearch ==
    [][ /\ (initPc = "loading" /\ initPc' # "loading")
              => requestLog' = <<"getUsage">>
        /\ (searchPc # "idle" /\ searchPc' = "idle")
              => (~searchBtnDisabled'
                  /\ requestLog' = <<"searchBusinesses", "getUsage">>) ]_vars

\* C7: once a search has succeeded, the displayed statistics are the counts
\* over the whole current result list, whatever the filters and the page.
C7_StatsOverUnfiltered ==
    currentSearchId # NullNum =>
        LET withSite == { j \in 1 .. Len(currentBusinesses) :
                            /\ currentBusinesses[j].website # NullText
                            /\ currentBusinesses[j].website # <<>> }
        IN  /\ stats.total = Len(currentBusinesses)
            /\ stats.withWebsite = Cardinality(withSite)
            /\ stats.withoutWebsite = Len(currentBusinesses) - Cardinality(withSite)

C7_Witness ==
    /\ currentSearchId # NullNum
    /\ websiteFilter = "false"
    /\ lastEvent = "nextClick"
    /\ currentPage = 1
    /\ stats.total > 2 * PAGE_SIZE
    /\ stats.withWebsite > 0
    /\ Len(Filtered) < stats.total

\* C8: exportCSV writes the header line and then one line per business of
\* the filtered view, in its order, whatever the current page; on an empty
\* result list it downloads nothing and changes no state.
\* the lines of a text: the stretches between its newline characters
C8_SplitLines(text) ==
    LET newlines == { i \in 1 .. Len(text) : text[i] = "\n" }
        count == Cardinality(newlines)
        at == [ k \in 0 .. (count + 1) |->
                  IF k = 0 THEN 0
                  ELSE IF k > count THEN Len(text) + 1
                  ELSE CHOOSE i \in newlines :
                          Cardinality({ j \in newlines : j < i }) = k - 1 ]
    IN  [ k \in 1 .. (count + 1) |-> SubSeq(text, at[k - 1] + 1, at[k] - 1) ]

C8_HeaderLine == <<"Name", ",", "Lead Score", ",", "Rating", ",", "Reviews", ",",
                   "Website", ",", "Phone", ",", "Address">>

C8_StartsWith(line, prefix) ==
    Len(line) >= Len(prefix) /\ SubSeq(line, 1, Len(prefix)) = prefix

C8_IsExportOf(text, businesses) ==
    LET lines == C8_SplitLines(text) IN
    /\ text # NoDownload
    /\ Len(lines) = 1 + Len(businesses)
    /\ lines[1] = C8_HeaderLine
    /\ \A i \in 1 .. Len(businesses) :
          C8_StartsWith(lines[i + 1],
              <<Quote>> \o EscapeQuotes(businesses[i].name) \o <<Quote, ",">>)

C8_ExportsFilteredView ==
    [][ lastEvent' = "export" =>
          IF Len(currentBusinesses) = 0
          THEN /\ download' = NoDownload
               /\ UNCHANGED << listVars, currentPage, filterVars, searchVars,
                               display, errorMessage, resultsBody, pagination,
                               stats, usageVars, initPc, apiCall >>
          ELSE C8_IsExportOf(download', Filtered) ]_vars

C8_Witness ==
    /\ lastEvent = "export"
    /\ download # NoDownload
    /\ currentPage = 1
    /\ websiteFilter = "false"
    /\ Len(Filtered) > PAGE_SIZE
    /\ Len(Filtered) < Len(currentBusinesses)

\* C9: for the read operations, a 404 makes the three get-by-id lookups
\* return null, every other non-2xx response makes the operation throw, and
\* a 2xx response returns the parsed JSON body.
ReadOperations == {"getBusinesses", "getStats", "getCompanyResearch",
                   "getSeoAnalysis", "getSeoIssues", "healthCheck"}
LookupsById == {"getCompanyResearch", "getSeoAnalysis", "getSeoIssues"}

C9_ReadOperationsMapStatus ==
    apiCall.op \in ReadOperations =>
        LET r == apiCall.response
            o == apiCall.outcome
            is2xx == r.status \in 200 .. 299
        IN  /\ (is2xx /\ r.body.tag # "notjson")
                 => (o.kind = "return" /\ o.value = r.body)
            /\ (r.status = 404 /\ apiCall.op \in LookupsById)
                 => (o.kind = "return" /\ o.value = JsonNull)
            /\ (~is2xx /\ ~(r.status = 404 /\ apiCall.op \in LookupsById))
                 => o.kind = "throw"

\* C10: searchBusinesses, runCompanyResearch and runSeoAnalysis throw on
\* every non-2xx response, with the server's detail message when the
\* response carries one and the operation's default message otherwise, also
\* when the error response has no structured body.
C10_DefaultMessage(op) ==
    CASE op = "searchBusinesses" -> "Search failed"
      [] op = "runCompanyResearch" -> "Research failed"
      [] op = "runSeoAnalysis" -> "SEO analysis failed"

C10_ErrorMessageOrDefault ==
    apiCall.op \in {"searchBusinesses", "runCompanyResearch", "runSeoAnalysis"} =>
        LET r == apiCall.response
            o == apiCall.outcome
            carriesDetail == /\ r.body.tag = "object"
                             /\ r.body.detail # Undefined
                             /\ r.body.detail # ""
        IN  r.status \notin 200 .. 299 =>
                /\ o.kind = "throw"
                /\ o.message = IF carriesDetail THEN r.body.detail
                               ELSE C10_DefaultMessage(apiCall.op)

\* C11: every rendered row offers the Research and SEO controls exactly when
\* its business has a website, and every runCompanyResearch / runSeoAnalysis
\* request made from the page is for a business that has one.
C11_BusinessOf(id) ==
    currentBusinesses[CHOOSE j \in 1 .. Len(currentBusinesses) :
                          currentBusinesses[j].id = id]

C11_WebsitePresent(b) == b.website # NullText /\ b.website # <<>>

C11_Requested(modal) ==
    (modal.pending \cup {modal.latest, modal.content.id}) \ {NoBusiness}

C11_ActionsOnlyWithWebsite ==
    /\ \A i \in 1 .. Len(resultsBody) :
          LET present == C11_WebsitePresent(C11_BusinessOf(resultsBody[i].id))
          IN  /\ resultsBody[i].researchBtn = present
              /\ resultsBody[i].seoBtn = present
    /\ \A id \in C11_Requested(researchModal) \cup C11_Requested(seoModal) :
          C11_WebsitePresent(C11_BusinessOf(id))

C11_Witness ==
    /\ researchModal.pending # {}
    /\ seoModal.pending # {}
    /\ \E i \in 1 .. Len(resultsBody) : ~resultsBody[i].researchBtn
    /\ \E i \in 1 .. Len(resultsBody) : resultsBody[i].seoBtn

\* C12: at most one search request is in flight; the search button is
\* disabled from the moment handleSearch issues its request until the
\* attempt has settled, and enabled again once it has.
C12_OneSearchInFlight ==
    /\ searchRequestsInFlight <= 1
    /\ (searchPc # "idle" => searchBtnDisabled)
    /\ (searchPc = "idle" => (~searchBtnDisabled /\ searchRequestsInFlight = 0))

C12_Witness ==
    /\ searchRequestsInFlight = 1
    /\ searchBtnDisabled
    /\ currentSearchId # NullNum
    /\ errorMessage # ""

\* C13: once every call a modal has made has settled, the modal's content is
\* the result or the error of the call that was made last.
C13_ShowsLatest(modal) ==
    (modal.latest # NoBusiness /\ modal.pending = {}) =>
        /\ modal.content.kind \in {"result", "error"}
        /\ modal.content.id = modal.latest

C13_ModalShowsLatestRequest ==
    C13_ShowsLatest(researchModal) /\ C13_ShowsLatest(seoModal)

====
